---- MODULE Spec2Model ----
(***************************************************************************)
(* Model of the e-commerce backend (Express handlers over a MySQL pool).   *)
(* The relational store is the state; every `await pool.execute(...)` of a *)
(* handler is one atomic step, so a handler is a small process whose       *)
(* position is kept in h[r].pc.  No handler opens a transaction: every     *)
(* statement is auto-committed on its own.                                 *)
(***************************************************************************)
EXTENDS Integers, Sequences, FiniteSets, TLC

\* ------------------------------------------------------------------ bounds
MaxProducts == 2
MaxOrders   == 2
MaxItems    == 2
MaxStock    == 2
MaxQty      == 2
MaxCalls    == 3
MaxFiles    == 2

\* ------------------------------------------------------------- value model
\* Values of a request body are tagged with their JavaScript type.
Undef  == [t |-> "undefined"]
NaN    == [t |-> "nan"]
Null   == [t |-> "null"]
N(n)   == [t |-> "number", n |-> n]
S(s)   == [t |-> "string", s |-> s]
\* A string that spells the number n, as a form field carries it.
NS(n)  == [t |-> "numstr", n |-> n]
\* The name multer gives the k-th stored upload: 'product-' + uniqueSuffix + ext.
File(k) == [t |-> "filename", n |-> k]
Arr(a) == [t |-> "array", a |-> a]

\* JavaScript truthiness, as tested by `!x` and `x || y`.
Falsy(v) ==
    \/ v.t = "undefined"
    \/ v.t = "null"
    \/ v.t = "nan"
    \/ (v.t = "string" /\ v.s = "")
    \/ (v.t = "number" /\ v.n = 0)

\* x || y
OrElse(x, y) == IF Falsy(x) THEN y ELSE x

\* parseInt(x): a number, or a string that spells one, gives that number,
\* anything else NaN.
parseInt(v) == IF v.t \in {"number", "numstr"} THEN N(v.n) ELSE NaN

\* Money is DECIMAL(10,3): kept as an integer number of thousandths.
Milli(units, thousandths) == units * 1000 + thousandths

\* 10.500
WidgetPrice == Milli(10, 500)

ProductIds == 1..MaxProducts
OrderIds   == 1..MaxOrders

validStatuses ==
    {"pending", "confirmed", "processing", "shipped", "delivered", "cancelled"}

\* orders.status ENUM(...) of the schema.
StatusEnum ==
    {"pending", "confirmed", "processing", "shipped", "delivered", "cancelled"}

VARIABLES
    products,       \* table products: id -> row, for the rows that exist
    nextProductId,  \* AUTO_INCREMENT of products
    orders,         \* table orders: id -> row, for the rows that exist
    nextOrderId,    \* AUTO_INCREMENT of orders
    order_items,    \* table order_items: rows in insertion (id) order
    h,              \* request handlers: slot -> position, request, locals, response
    before,         \* history: slot -> the tables as they were when the request arrived
    calls,          \* number of requests received so far
    uploads,        \* the files of UPLOADS_DIR
    nextFile,       \* number of uploads stored so far, plus one
    server,         \* the process: position of startServer, retries, relations, listener
    browser         \* the shop page: localStorage['elegance_cart'] and the last Cart call

vars ==
    <<products, nextProductId, orders, nextOrderId, order_items, h, before, calls,
      uploads, nextFile, server, browser>>
db == <<products, nextProductId, orders, nextOrderId, order_items>>
fs == <<uploads, nextFile>>

Slots == DOMAIN h

NoOut == [t |-> "none"]

Idle ==
    [op |-> "none", pc |-> "idle", body |-> Undef, id |-> 0, orderId |-> 0,
     i |-> 0, rows |-> <<>>, code |-> 0, out |-> NoOut]

Snapshot ==
    [products |-> products, orders |-> orders, order_items |-> order_items,
     call |-> calls + 1, uploads |-> uploads]

\* The relations createTables ensures.
Schema == {"products", "orders", "order_items"}

\* pool.execute on relation t can only succeed when t exists.
Has(t) == t \in server.tables

\* A handler slot is free when no request is being served in it; requests are
\* received only once app.listen has been called.
Free(r) == h[r].pc = "idle" /\ server.listening

\* res.status(code).json(out): the handler's last step.
Respond(r, code, out) ==
    h' = [h EXCEPT ![r].pc = "done", ![r].code = code, ![r].out = out]

\* The catch block of every handler: res.status(500).json({error, details}).
Respond500(r) == Respond(r, 500, [t |-> "error"])

\* The catch block after fs.unlinkSync threw: details carries error.message.
RespondUnlinkError(r) == Respond(r, 500, [t |-> "error", details |-> "unlink"])

\* The catch block after the store refused a row whose parent is gone.
RespondForeignKeyError(r) ==
    Respond(r, 500, [t |-> "error", details |-> "foreign key"])

\* A new request enters slot r.
Accept(r, op, body, id, pc) ==
    /\ h' = [h EXCEPT ![r] = [Idle EXCEPT !.op = op, !.pc = pc, !.body = body, !.id = id]]
    /\ before' = [before EXCEPT ![r] = Snapshot]
    /\ calls' = calls + 1

\* A request that is answered in the step that receives it.
AcceptAndRespond(r, op, body, id, code, out) ==
    /\ h' = [h EXCEPT ![r] = [Idle EXCEPT !.op = op, !.pc = "done", !.body = body,
                                          !.id = id, !.code = code, !.out = out]]
    /\ before' = [before EXCEPT ![r] = Snapshot]
    /\ calls' = calls + 1

\* SELECT * FROM <table> WHERE id = ?  ->  the rows array
SelectById(tbl, id) == IF id \in DOMAIN tbl THEN <<tbl[id]>> ELSE <<>>

\* DELETE FROM <table> WHERE id = ?
DeleteById(tbl, id) == [k \in DOMAIN tbl \ {id} |-> tbl[k]]

\* INSERT of a row under a fresh AUTO_INCREMENT id
InsertRow(tbl, id, row) == [k \in DOMAIN tbl \cup {id} |-> IF k = id THEN row ELSE tbl[k]]

\* mysql2 refuses a bind parameter that is undefined (TypeError before the
\* statement is sent); the catch block turns it into the 500 answer.
BindsOk(params) == \A k \in 1..Len(params) : params[k].t # "undefined"

\* ------------------------------------------------------------ createOrder
\* GREATEST(a, b) of MySQL.
GREATEST(a, b) == IF a >= b THEN a ELSE b

\* Variant: the decrement without the floor at zero.
DecrementStock_Unclamped(tbl, pid, q) ==
    IF pid \in DOMAIN tbl
    THEN [tbl EXCEPT ![pid].stock = tbl[pid].stock - q]
    ELSE tbl

\* UPDATE products SET stock = GREATEST(0, stock - ?) WHERE id = ?
DecrementStock(tbl, pid, q) ==
    IF pid \in DOMAIN tbl
    THEN [tbl EXCEPT ![pid].stock = GREATEST(0, tbl[pid].stock - q)]
    ELSE tbl

\* Variant: the validation without the test of the phone number.
OrderRequestIncomplete_NoPhone(body) ==
    \/ Falsy(body.orderNumber)
    \/ Falsy(body.customerName)
    \/ Falsy(body.customerAddress)
    \/ Falsy(body.items)
    \/ Len(body.items.a) = 0

\* The validation of POST /api/orders.
OrderRequestIncomplete(body) ==
    \/ Falsy(body.orderNumber)
    \/ Falsy(body.customerName)
    \/ Falsy(body.customerPhone)
    \/ Falsy(body.customerAddress)
    \/ Falsy(body.items)
    \/ Len(body.items.a) = 0

ItemParams(item) == <<item.id, item.name, item.price, item.quantity>>

\* Variant: the line total is the unit price, whatever the quantity.
ItemRow_UnitTotal(orderId, item) ==
    [order_id |-> orderId, product_id |-> item.id.n, product_name |-> item.name.s,
     product_price |-> item.price.n, quantity |-> item.quantity.n,
     total |-> item.price.n]

\* The row of INSERT INTO order_items: total is item.price * item.quantity.
ItemRow(orderId, item) ==
    [order_id |-> orderId, product_id |-> item.id.n, product_name |-> item.name.s,
     product_price |-> item.price.n, quantity |-> item.quantity.n,
     total |-> item.price.n * item.quantity.n]

\* Variant: order_number without its UNIQUE constraint.
OrderNumberTaken_Never(n) == FALSE

\* order_number VARCHAR(50) NOT NULL UNIQUE: the INSERT fails with ER_DUP_ENTRY.
OrderNumberTaken(n) == \E o \in DOMAIN orders : orders[o].order_number = n

\* Requests whose order-row insert is still to come (each will take an order id).
PendingInserts == Cardinality({s \in Slots : h[s].pc = "insert_order"})

PostOrders_Receive(r, body) ==
    /\ UNCHANGED <<server, browser>>
    /\ Free(r)
    /\ calls < MaxCalls
    /\ IF OrderRequestIncomplete(body)
       THEN AcceptAndRespond(r, "createOrder", body, 0, 400, [t |-> "error"])
       ELSE /\ nextOrderId + PendingInserts <= MaxOrders
            /\ Accept(r, "createOrder", body, 0, "insert_order")
    /\ UNCHANGED db
    /\ UNCHANGED fs

\* Variant: the new row takes the status the request carries.
NewOrderRow_StatusFromRequest(body) ==
    [order_number |-> body.orderNumber.s, status |-> body.status.s,
     subtotal |-> body.subtotal.n, shipping |-> body.shipping.n,
     total |-> body.total.n]

\* The row of INSERT INTO orders (...) VALUES (?, ..., 'pending'): the three
\* amounts are the request's, bound as they came.
NewOrderRow(body) ==
    [order_number |-> body.orderNumber.s, status |-> "pending",
     subtotal |-> body.subtotal.n, shipping |-> body.shipping.n,
     total |-> body.total.n]

\* The bind parameters of INSERT INTO orders.
OrderParams(body) ==
    <<body.orderNumber, body.customerName, body.customerPhone,
      OrElse(body.customerEmail, Null), body.customerAddress,
      OrElse(body.notes, Null), body.paymentMethod, body.subtotal, body.shipping,
      body.total>>

PostOrders_InsertOrder(r) ==
    /\ Has("orders") /\ UNCHANGED <<server, browser>>
    /\ h[r].op = "createOrder" /\ h[r].pc = "insert_order"
    /\ IF ~BindsOk(OrderParams(h[r].body)) \/ OrderNumberTaken(h[r].body.orderNumber.s)
       THEN \* TypeError of the driver, or ER_DUP_ENTRY on the UNIQUE order_number
            /\ Respond500(r)
            /\ UNCHANGED db
       ELSE /\ orders' = InsertRow(orders, nextOrderId, NewOrderRow(h[r].body))
            /\ nextOrderId' = nextOrderId + 1
            /\ IF Len(h[r].body.items.a) = 0
               THEN \* the for-of loop has nothing to do
                    h' = [h EXCEPT ![r].orderId = nextOrderId, ![r].pc = "done",
                                   ![r].code = 201,
                                   ![r].out = [t |-> "created", orderId |-> nextOrderId,
                                               orderNumber |-> h[r].body.orderNumber.s]]
               ELSE h' = [h EXCEPT ![r].orderId = nextOrderId, ![r].i = 1,
                                   ![r].pc = "insert_item"]
            /\ UNCHANGED <<products, nextProductId, order_items>>
    /\ UNCHANGED <<before, calls>>
    /\ UNCHANGED fs

\* Variant: order_items.order_id without its foreign key.
ForeignKeyHolds_Unchecked(orderId) == TRUE

\* FOREIGN KEY (order_id) REFERENCES orders(id): an INSERT INTO order_items
\* whose order row is gone fails with ER_NO_REFERENCED_ROW.
ForeignKeyHolds(orderId) == orderId \in DOMAIN orders

PostOrders_InsertItem(r) ==
    /\ Has("order_items") /\ UNCHANGED <<server, browser>>
    /\ h[r].op = "createOrder" /\ h[r].pc = "insert_item"
    /\ LET item == h[r].body.items.a[h[r].i] IN
       IF ~BindsOk(ItemParams(item))
       THEN /\ Respond500(r)
            /\ UNCHANGED db
       ELSE IF ~ForeignKeyHolds(h[r].orderId)
       THEN /\ RespondForeignKeyError(r)
            /\ UNCHANGED db
       ELSE /\ order_items' = Append(order_items, ItemRow(h[r].orderId, item))
            /\ h' = [h EXCEPT ![r].pc = "update_stock"]
            /\ UNCHANGED <<products, nextProductId, orders, nextOrderId>>
    /\ UNCHANGED <<before, calls>>
    /\ UNCHANGED fs

PostOrders_UpdateStock(r) ==
    /\ Has("products") /\ UNCHANGED <<server, browser>>
    /\ h[r].op = "createOrder" /\ h[r].pc = "update_stock"
    /\ LET item == h[r].body.items.a[h[r].i] IN
       products' = DecrementStock(products, item.id.n, item.quantity.n)
    /\ IF h[r].i < Len(h[r].body.items.a)
       THEN h' = [h EXCEPT ![r].i = h[r].i + 1, ![r].pc = "insert_item"]
       ELSE Respond(r, 201, [t |-> "created", orderId |-> h[r].orderId,
                             orderNumber |-> h[r].body.orderNumber.s])
    /\ UNCHANGED <<nextProductId, orders, nextOrderId, order_items, before, calls>>
    /\ UNCHANGED fs

\* --------------------------------------------------------------- getOrder
\* SELECT * FROM order_items WHERE order_id = ?
ItemsOf(orderId) == SelectSeq(order_items, LAMBDA it : it.order_id = orderId)

GetOrder_Receive(r, id) ==
    /\ UNCHANGED <<server, browser>>
    /\ Free(r)
    /\ calls < MaxCalls
    /\ Accept(r, "getOrder", Undef, id, "select_order")
    /\ UNCHANGED db
    /\ UNCHANGED fs

GetOrder_SelectOrder(r) ==
    /\ Has("orders") /\ UNCHANGED <<server, browser>>
    /\ h[r].op = "getOrder" /\ h[r].pc = "select_order"
    /\ LET found == SelectById(orders, h[r].id) IN
       IF Len(found) = 0
       THEN Respond(r, 404, [t |-> "error"])
       ELSE h' = [h EXCEPT ![r].rows = found, ![r].pc = "select_items"]
    /\ UNCHANGED <<db, before, calls>>
    /\ UNCHANGED fs

GetOrder_SelectItems(r) ==
    /\ Has("order_items") /\ UNCHANGED <<server, browser>>
    /\ h[r].op = "getOrder" /\ h[r].pc = "select_items"
    /\ Respond(r, 200, [t |-> "order", id |-> h[r].id, order |-> h[r].rows[1],
                        items |-> ItemsOf(h[r].id)])
    /\ UNCHANGED <<db, before, calls>>
    /\ UNCHANGED fs

\* -------------------------------------------------------------- setStatus
\* Variant: any string passes as a status.
StatusValid_AnyString(status) == status.t = "string"

StatusValid(status) == status.t = "string" /\ status.s \in validStatuses

\* Variant: delivered and cancelled are final.
UpdateStatus_Final(tbl, id, status) ==
    IF id \in DOMAIN tbl /\ tbl[id].status \notin {"delivered", "cancelled"}
    THEN [tbl EXCEPT ![id].status = status]
    ELSE tbl

\* UPDATE orders SET status = ? WHERE id = ?
UpdateStatus(tbl, id, status) ==
    IF id \in DOMAIN tbl THEN [tbl EXCEPT ![id].status = status] ELSE tbl

PutOrderStatus_Receive(r, id, status) ==
    /\ UNCHANGED <<server, browser>>
    /\ Free(r)
    /\ calls < MaxCalls
    /\ IF ~StatusValid(status)
       THEN AcceptAndRespond(r, "setStatus", status, id, 400, [t |-> "error"])
       ELSE Accept(r, "setStatus", status, id, "select_order")
    /\ UNCHANGED db
    /\ UNCHANGED fs

PutOrderStatus_SelectOrder(r) ==
    /\ Has("orders") /\ UNCHANGED <<server, browser>>
    /\ h[r].op = "setStatus" /\ h[r].pc = "select_order"
    /\ LET existing == SelectById(orders, h[r].id) IN
       IF Len(existing) = 0
       THEN Respond(r, 404, [t |-> "error"])
       ELSE h' = [h EXCEPT ![r].rows = existing, ![r].pc = "update_status"]
    /\ UNCHANGED <<db, before, calls>>
    /\ UNCHANGED fs

\* Variant: cancelling an order puts one unit back for each of its line items.
PutOrderStatus_Update_Restocking(r) ==
    /\ Has("orders") /\ UNCHANGED <<server, browser>>
    /\ h[r].op = "setStatus" /\ h[r].pc = "update_status"
    /\ orders' = UpdateStatus(orders, h[r].id, h[r].body.s)
    /\ products' =
          IF h[r].body.s = "cancelled"
          THEN [p \in DOMAIN products |->
                  IF \E k \in 1..Len(order_items) :
                        order_items[k].order_id = h[r].id /\ order_items[k].product_id = p
                  THEN [products[p] EXCEPT !.stock = @ + 1]
                  ELSE products[p]]
          ELSE products
    /\ Respond(r, 200, [t |-> "status", newStatus |-> h[r].body.s])
    /\ UNCHANGED <<nextProductId, nextOrderId, order_items, before, calls>>
    /\ UNCHANGED fs

PutOrderStatus_Update(r) ==
    /\ Has("orders") /\ UNCHANGED <<server, browser>>
    /\ h[r].op = "setStatus" /\ h[r].pc = "update_status"
    /\ orders' = UpdateStatus(orders, h[r].id, h[r].body.s)
    /\ Respond(r, 200, [t |-> "status", newStatus |-> h[r].body.s])
    /\ UNCHANGED <<products, nextProductId, nextOrderId, order_items, before, calls>>
    /\ UNCHANGED fs

\* ------------------------------------------------------------ deleteOrder
\* Variant: the line items outlive their order.
CascadeDelete_KeepItems(items, orderId) == items

\* ON DELETE CASCADE of order_items.order_id
CascadeDelete(items, orderId) == SelectSeq(items, LAMBDA it : it.order_id # orderId)

DeleteOrder_Receive(r, id) ==
    /\ UNCHANGED <<server, browser>>
    /\ Free(r)
    /\ calls < MaxCalls
    /\ Accept(r, "deleteOrder", Undef, id, "select_order")
    /\ UNCHANGED db
    /\ UNCHANGED fs

DeleteOrder_SelectOrder(r) ==
    /\ Has("orders") /\ UNCHANGED <<server, browser>>
    /\ h[r].op = "deleteOrder" /\ h[r].pc = "select_order"
    /\ LET existing == SelectById(orders, h[r].id) IN
       IF Len(existing) = 0
       THEN Respond(r, 404, [t |-> "error"])
       ELSE h' = [h EXCEPT ![r].rows = existing, ![r].pc = "delete_order"]
    /\ UNCHANGED <<db, before, calls>>
    /\ UNCHANGED fs

DeleteOrder_Delete(r) ==
    /\ Has("orders") /\ UNCHANGED <<server, browser>>
    /\ h[r].op = "deleteOrder" /\ h[r].pc = "delete_order"
    /\ orders' = DeleteById(orders, h[r].id)
    /\ order_items' = IF h[r].id \in DOMAIN orders
                      THEN CascadeDelete(order_items, h[r].id)
                      ELSE order_items
    /\ Respond(r, 200, [t |-> "deleted", deletedOrder |-> h[r].rows[1]])
    /\ UNCHANGED <<products, nextProductId, nextOrderId, before, calls>>
    /\ UNCHANGED fs

\* ------------------------------------------------------------------ images
ExternalUrl == "http://cdn.example/a.png"
OtherUrl    == "https://cdn.example/b.png"

\* image_url.startsWith('http')
StartsWithHttp(v) == v.t = "string" /\ v.s \in {ExternalUrl, OtherUrl}

\* existing[0].image_url && !existing[0].image_url.startsWith('http')
IsLocalImage(v) == ~Falsy(v) /\ ~StartsWithHttp(v)

\* The file of UPLOADS_DIR an image reference names, if it names one.
FileOf(v) == IF v.t = "filename" THEN {v.n} ELSE {}

\* fs.existsSync(path.join(UPLOADS_DIR, image_url))
ExistsSync(files, v) == FileOf(v) \cap files # {}

\* Variant: the file stays where it is.
UnlinkSync_Keep(files, v) == files

\* fs.unlinkSync(path.join(UPLOADS_DIR, image_url))
UnlinkSync(files, v) == files \ FileOf(v)

\* The `image` part of a multipart request, before multer has stored it.
NewUpload == [t |-> "upload"]

HasUpload(body) == body.file = NewUpload

\* req.body and req.file as the handler sees them: req.file.filename is the name
\* multer generated.
StoredUpload(body) == IF HasUpload(body) THEN [body EXCEPT !.file = File(nextFile)] ELSE body

\* upload.single('image'): the file is written to UPLOADS_DIR under a fresh name
\* before the handler runs.
StoreUpload(body) ==
    /\ HasUpload(body) => nextFile <= MaxFiles
    /\ uploads' = IF HasUpload(body) THEN uploads \cup {nextFile} ELSE uploads
    /\ nextFile' = IF HasUpload(body) THEN nextFile + 1 ELSE nextFile

\* ---------------------------------------------------------- product create
parseFloat(v) == IF v.t \in {"number", "numstr"} THEN N(v.n) ELSE NaN

\* A NaN among the bind parameters of a statement.
HasNaN(params) == \E k \in 1..Len(params) : params[k].t = "nan"

\* The number a numeric column takes from a bind parameter; the server either
\* rejects the statement for a NaN or stores it as 0.
SqlNumber(v) == IF v.t = "nan" THEN 0 ELSE v.n

\* The validation of POST /api/products.
ProductRequestIncomplete(body) == Falsy(body.name) \/ Falsy(body.price)

\* The stock bound by the INSERT: parseInt(stock) || 0
CreateStock(body) == OrElse(parseInt(body.stock), N(0))

\* finalImageUrl of POST /api/products.
CreateImageUrl(body) ==
    IF ~Falsy(body.file) THEN body.file ELSE OrElse(body.image_url, Null)

\* The numeric bind parameters of the INSERT.
NewProductNumbers(body) == <<parseFloat(body.price), CreateStock(body)>>

\* The row written by INSERT INTO products (name, description, price, stock, image_url)
NewProductRow(body) ==
    [name |-> body.name.s,
     description |-> OrElse(body.description, S("")).s,
     price |-> SqlNumber(parseFloat(body.price)),
     stock |-> SqlNumber(CreateStock(body)),
     image_url |-> CreateImageUrl(body)]

\* formatProduct(product): price and stock as numbers.
formatProduct(rows) ==
    IF Len(rows) = 0
    THEN [t |-> "product", found |-> FALSE]
    ELSE [t |-> "product", found |-> TRUE, row |-> rows[1]]

PostProducts_Receive(r, body) ==
    /\ UNCHANGED <<server, browser>>
    /\ Free(r)
    /\ calls < MaxCalls
    /\ StoreUpload(body)
    /\ IF ProductRequestIncomplete(body)
       THEN AcceptAndRespond(r, "createProduct", StoredUpload(body), 0, 400, [t |-> "error"])
       ELSE /\ nextProductId <= MaxProducts
            /\ Accept(r, "createProduct", StoredUpload(body), 0, "insert_product")
    /\ UNCHANGED db

PostProducts_Insert(r) ==
    /\ Has("products") /\ UNCHANGED <<server, browser>>
    /\ h[r].op = "createProduct" /\ h[r].pc = "insert_product"
    /\ \/ /\ products' = InsertRow(products, nextProductId, NewProductRow(h[r].body))
          /\ nextProductId' = nextProductId + 1
          /\ h' = [h EXCEPT ![r].id = nextProductId, ![r].pc = "select_product"]
       \/ /\ HasNaN(NewProductNumbers(h[r].body))
          /\ Respond500(r)
          /\ UNCHANGED <<products, nextProductId>>
    /\ UNCHANGED <<orders, nextOrderId, order_items, before, calls, fs>>

PostProducts_Select(r) ==
    /\ Has("products") /\ UNCHANGED <<server, browser>>
    /\ h[r].op = "createProduct" /\ h[r].pc = "select_product"
    /\ Respond(r, 201, formatProduct(SelectById(products, h[r].id)))
    /\ UNCHANGED <<db, before, calls, fs>>

\* -------------------------------------------------------------- product get
GetProduct_Receive(r, id) ==
    /\ UNCHANGED <<server, browser>>
    /\ Free(r)
    /\ calls < MaxCalls
    /\ Accept(r, "getProduct", Undef, id, "select_product")
    /\ UNCHANGED db
    /\ UNCHANGED fs

\* SELECT * FROM products WHERE id = ?, then the 404 or res.json(formatProduct(rows[0])).
GetProduct_Select(r) ==
    /\ Has("products") /\ UNCHANGED <<server, browser>>
    /\ h[r].op = "getProduct" /\ h[r].pc = "select_product"
    /\ LET rows == SelectById(products, h[r].id) IN
       IF Len(rows) = 0
       THEN Respond(r, 404, [t |-> "error"])
       ELSE Respond(r, 200, formatProduct(rows))
    /\ UNCHANGED <<db, before, calls, fs>>

\* ---------------------------------------------------------- product update
\* finalImageUrl of PUT /api/products/:id.
UpdateImageUrl(body, existing) ==
    IF ~Falsy(body.file) THEN body.file
    ELSE IF body.image_url.t # "undefined" THEN body.image_url
    ELSE existing.image_url

\* The numeric bind parameters of the UPDATE.
UpdatedProductNumbers(body, existing) ==
    <<IF body.price.t # "undefined" THEN parseFloat(body.price) ELSE N(existing.price),
      IF body.stock.t # "undefined" THEN parseInt(body.stock) ELSE N(existing.stock)>>

\* Variant: an update without fields empties the description.
UpdatedProductRow_DescriptionLost(body, existing) ==
    [name  |-> IF Falsy(body.name) THEN existing.name ELSE body.name.s,
     description |-> IF body.description.t # "undefined" THEN body.description.s ELSE "",
     price |-> SqlNumber(UpdatedProductNumbers(body, existing)[1]),
     stock |-> SqlNumber(UpdatedProductNumbers(body, existing)[2]),
     image_url |-> UpdateImageUrl(body, existing)]

\* The row written by UPDATE products SET name, description, price, stock, image_url:
\* a field absent from the request keeps the value read by the first SELECT.
UpdatedProductRow(body, existing) ==
    [name  |-> IF Falsy(body.name) THEN existing.name ELSE body.name.s,
     description |-> IF body.description.t # "undefined" THEN body.description.s
                     ELSE existing.description,
     price |-> SqlNumber(UpdatedProductNumbers(body, existing)[1]),
     stock |-> SqlNumber(UpdatedProductNumbers(body, existing)[2]),
     image_url |-> UpdateImageUrl(body, existing)]

PutProduct_Receive(r, id, body) ==
    /\ UNCHANGED <<server, browser>>
    /\ Free(r)
    /\ calls < MaxCalls
    /\ StoreUpload(body)
    /\ Accept(r, "updateProduct", StoredUpload(body), id, "select_existing")
    /\ UNCHANGED db

\* Variant: the previous local image is removed by every update.
PutProduct_SelectExisting_AlwaysUnlink(r) ==
    /\ Has("products") /\ UNCHANGED <<server, browser>>
    /\ h[r].op = "updateProduct" /\ h[r].pc = "select_existing"
    /\ LET existing == SelectById(products, h[r].id) IN
       IF Len(existing) = 0
       THEN Respond(r, 404, [t |-> "error"]) /\ UNCHANGED uploads
       ELSE IF IsLocalImage(existing[1].image_url)
               /\ ExistsSync(uploads, existing[1].image_url)
            THEN \/ /\ uploads' = UnlinkSync(uploads, existing[1].image_url)
                    /\ h' = [h EXCEPT ![r].rows = existing, ![r].pc = "update_product"]
                 \/ /\ RespondUnlinkError(r)
                    /\ UNCHANGED uploads
            ELSE /\ h' = [h EXCEPT ![r].rows = existing, ![r].pc = "update_product"]
                 /\ UNCHANGED uploads
    /\ UNCHANGED <<db, before, calls, nextFile>>

\* The first SELECT and what the handler does with its result before it issues
\* the UPDATE: the 404, and the removal of the previous local image when a new
\* file came with the request.  unlinkSync can throw, which the catch answers.
PutProduct_SelectExisting(r) ==
    /\ Has("products") /\ UNCHANGED <<server, browser>>
    /\ h[r].op = "updateProduct" /\ h[r].pc = "select_existing"
    /\ LET existing == SelectById(products, h[r].id) IN
       IF Len(existing) = 0
       THEN Respond(r, 404, [t |-> "error"]) /\ UNCHANGED uploads
       ELSE IF ~Falsy(h[r].body.file) /\ IsLocalImage(existing[1].image_url)
               /\ ExistsSync(uploads, existing[1].image_url)
            THEN \/ /\ uploads' = UnlinkSync(uploads, existing[1].image_url)
                    /\ h' = [h EXCEPT ![r].rows = existing, ![r].pc = "update_product"]
                 \/ /\ RespondUnlinkError(r)
                    /\ UNCHANGED uploads
            ELSE /\ h' = [h EXCEPT ![r].rows = existing, ![r].pc = "update_product"]
                 /\ UNCHANGED uploads
    /\ UNCHANGED <<db, before, calls, nextFile>>

PutProduct_Update(r) ==
    /\ Has("products") /\ UNCHANGED <<server, browser>>
    /\ h[r].op = "updateProduct" /\ h[r].pc = "update_product"
    /\ \/ /\ products' =
                IF h[r].id \in DOMAIN products
                THEN [products EXCEPT ![h[r].id] = UpdatedProductRow(h[r].body, h[r].rows[1])]
                ELSE products
          /\ h' = [h EXCEPT ![r].pc = "select_updated"]
       \/ /\ HasNaN(UpdatedProductNumbers(h[r].body, h[r].rows[1]))
          /\ Respond500(r)
          /\ UNCHANGED products
    /\ UNCHANGED <<nextProductId, orders, nextOrderId, order_items, before, calls, fs>>

PutProduct_SelectUpdated(r) ==
    /\ Has("products") /\ UNCHANGED <<server, browser>>
    /\ h[r].op = "updateProduct" /\ h[r].pc = "select_updated"
    /\ Respond(r, 200, formatProduct(SelectById(products, h[r].id)))
    /\ UNCHANGED <<db, before, calls, fs>>

\* ---------------------------------------------------------- product delete
DeleteProduct_Receive(r, id) ==
    /\ UNCHANGED <<server, browser>>
    /\ Free(r)
    /\ calls < MaxCalls
    /\ Accept(r, "deleteProduct", Undef, id, "select_existing")
    /\ UNCHANGED <<db, fs>>

\* The SELECT and what the handler does with its result before it issues the
\* DELETE: the 404, and the removal of the local image.  unlinkSync can throw,
\* which the catch answers.
DeleteProduct_SelectExisting(r) ==
    /\ Has("products") /\ UNCHANGED <<server, browser>>
    /\ h[r].op = "deleteProduct" /\ h[r].pc = "select_existing"
    /\ LET existing == SelectById(products, h[r].id) IN
       IF Len(existing) = 0
       THEN Respond(r, 404, [t |-> "error"]) /\ UNCHANGED uploads
       ELSE IF IsLocalImage(existing[1].image_url)
               /\ ExistsSync(uploads, existing[1].image_url)
            THEN \/ /\ uploads' = UnlinkSync(uploads, existing[1].image_url)
                    /\ h' = [h EXCEPT ![r].rows = existing, ![r].pc = "delete_product"]
                 \/ /\ RespondUnlinkError(r)
                    /\ UNCHANGED uploads
            ELSE /\ h' = [h EXCEPT ![r].rows = existing, ![r].pc = "delete_product"]
                 /\ UNCHANGED uploads
    /\ UNCHANGED <<db, before, calls, nextFile>>

\* Variant: the order items that reference the product go with it.
DeleteProduct_Delete_Cascading(r) ==
    /\ Has("products") /\ UNCHANGED <<server, browser>>
    /\ h[r].op = "deleteProduct" /\ h[r].pc = "delete_product"
    /\ products' = DeleteById(products, h[r].id)
    /\ order_items' = SelectSeq(order_items, LAMBDA it : it.product_id # h[r].id)
    /\ Respond(r, 200, [t |-> "deleted", deletedProduct |-> h[r].rows[1]])
    /\ UNCHANGED <<nextProductId, orders, nextOrderId, before, calls, fs>>

DeleteProduct_Delete(r) ==
    /\ Has("products") /\ UNCHANGED <<server, browser>>
    /\ h[r].op = "deleteProduct" /\ h[r].pc = "delete_product"
    /\ products' = DeleteById(products, h[r].id)
    /\ Respond(r, 200, [t |-> "deleted", deletedProduct |-> h[r].rows[1]])
    /\ UNCHANGED <<nextProductId, orders, nextOrderId, order_items, before, calls, fs>>

\* ------------------------------------------------------------------ health
\* Variant: the answer reports an error status when the store is not connected.
HealthAnswer_Degraded(dbStatus) ==
    [t |-> "health", status |-> IF dbStatus = "connected" THEN "ok" ELSE "error",
     database |-> dbStatus]

\* res.json({status: 'ok', service, database: dbStatus, timestamp})
HealthAnswer(dbStatus) == [t |-> "health", status |-> "ok", database |-> dbStatus]

Health_Receive(r) ==
    /\ UNCHANGED <<server, browser>>
    /\ Free(r)
    /\ calls < MaxCalls
    /\ Accept(r, "health", Undef, 0, "get_connection")
    /\ UNCHANGED db
    /\ UNCHANGED fs

\* await pool.getConnection(): a connection, or the catch block and the answer.
\* rows records the outcome of each step of the try block.
Health_GetConnection(r, ok) ==
    /\ UNCHANGED <<server, browser>>
    /\ h[r].op = "health" /\ h[r].pc = "get_connection"
    /\ IF ok
       THEN h' = [h EXCEPT ![r].rows = <<TRUE>>, ![r].pc = "ping"]
       ELSE h' = [h EXCEPT ![r].rows = <<FALSE>>, ![r].pc = "done", ![r].code = 200,
                           ![r].out = HealthAnswer("disconnected")]
    /\ UNCHANGED <<db, before, calls, fs>>

\* await connection.ping(), connection.release(), dbStatus = 'connected'; or the
\* catch block; then the answer.
Health_Ping(r, ok) ==
    /\ UNCHANGED <<server, browser>>
    /\ h[r].op = "health" /\ h[r].pc = "ping"
    /\ h' = [h EXCEPT ![r].rows = Append(@, ok), ![r].pc = "done", ![r].code = 200,
                      ![r].out = HealthAnswer(IF ok THEN "connected" ELSE "disconnected")]
    /\ UNCHANGED <<db, before, calls, fs>>

\* -------------------------------------------------------------- bootstrap
\* let retries = 10 in initializeDatabase.
Retries == 10

\* The process before startServer has run: no attempt made, nothing listening.
\* attempts, refused, failed and connectedAt are history: the number of
\* pool.getConnection calls, of those that were rejected, of passes of the loop
\* that ended in the catch block, and the attempt at which a connection was
\* first obtained (0: never).
Booting(tables) ==
    [pc |-> "connect", retries |-> Retries, tables |-> tables, dbConnected |-> FALSE,
     listening |-> FALSE, attempts |-> 0, refused |-> 0, failed |-> 0, connectedAt |-> 0]

\* The process after a bootstrap whose first attempt succeeded.
Serving ==
    [pc |-> "serving", retries |-> Retries, tables |-> Schema, dbConnected |-> TRUE,
     listening |-> TRUE, attempts |-> 1, refused |-> 0, failed |-> 0, connectedAt |-> 1]

\* The catch block of initializeDatabase: retries--, then either the 5 s sleep
\* and another pass, or the loop ends and the function returns false.
Catch_GiveUpEarly(s) ==
    LET n == s.retries - 1
    IN  [s EXCEPT !.retries = n, !.failed = @ + 1,
                  !.pc = IF n > 1 THEN "sleep" ELSE "listen"]

Catch(s) ==
    LET n == s.retries - 1
    IN  [s EXCEPT !.retries = n, !.failed = @ + 1,
                  !.pc = IF n > 0 THEN "sleep" ELSE "listen"]

BootFrame == UNCHANGED <<db, h, before, calls, fs, browser>>

\* pool = mysql.createPool(DB_CONFIG); await pool.getConnection(); release.
InitializeDatabase_Connect(ok) ==
    /\ server.pc = "connect" /\ server.retries > 0
    /\ LET s == [server EXCEPT !.attempts = @ + 1]
       IN  server' =
             IF ok
             THEN [s EXCEPT !.pc = "create_products",
                            !.connectedAt = IF @ = 0 THEN s.attempts ELSE @]
             ELSE Catch([s EXCEPT !.refused = @ + 1])
    /\ BootFrame

\* One CREATE TABLE IF NOT EXISTS of createTables: the relation exists
\* afterwards, or the statement is rejected and the error reaches the catch
\* block of initializeDatabase.
CreateTable(pc, t, next, ok) ==
    /\ server.pc = pc
    /\ server' = IF ok
                 THEN [server EXCEPT !.tables = @ \cup {t}, !.pc = next]
                 ELSE Catch(server)
    /\ BootFrame

CreateTables_Products(ok) ==
    CreateTable("create_products", "products", "check_image_url", ok)

\* SELECT image_url FROM products LIMIT 1, and on ER_BAD_FIELD_ERROR the ALTER
\* TABLE that adds the column. Any other error of the SELECT is swallowed by
\* the inner catch; an error of the ALTER reaches the outer catch.
CreateTables_CheckImageUrl(outcome) ==
    /\ server.pc = "check_image_url"
    /\ server' = IF outcome = "alter_failed"
                 THEN Catch(server)
                 ELSE [server EXCEPT !.pc = "create_orders"]
    /\ BootFrame

CreateTables_Orders(ok) ==
    CreateTable("create_orders", "orders", "create_order_items", ok)

\* The last statement of createTables; initializeDatabase then returns true.
CreateTables_OrderItems(ok) ==
    /\ server.pc = "create_order_items"
    /\ server' = IF ok
                 THEN [server EXCEPT !.tables = @ \cup {"order_items"},
                                     !.pc = "listen", !.dbConnected = TRUE]
                 ELSE Catch(server)
    /\ BootFrame

\* await new Promise(resolve => setTimeout(resolve, 5000)), then the next pass.
InitializeDatabase_Sleep ==
    /\ server.pc = "sleep"
    /\ server' = [server EXCEPT !.pc = "connect"]
    /\ BootFrame

\* startServer after initializeDatabase returned: app.listen, whatever the result.
StartServer_Listen_OnlyIfConnected ==
    /\ server.pc = "listen" /\ server.dbConnected
    /\ server' = [server EXCEPT !.pc = "serving", !.listening = TRUE]
    /\ BootFrame

StartServer_Listen ==
    /\ server.pc = "listen"
    /\ server' = [server EXCEPT !.pc = "serving", !.listening = TRUE]
    /\ BootFrame

\* -------------------------------------------------------------------- cart
\* Bounds of the cart: product ids, and the quantity addItem may reach.
MaxCartProducts == 3
MaxCartQty == 3

CartProductIds == 1..MaxCartProducts

\* A product as the page got it from GET /api/products.
CartProduct(id) == [id |-> id, name |-> "Widget", price |-> WidgetPrice]

\* localStorage without the key elegance_cart, and no Cart call made yet.
NoCall == [op |-> "none", id |-> 0, quantity |-> 0]
NewBrowser == [storage |-> Null, call |-> NoCall, before |-> Null]

\* JSON.stringify(items) as localStorage keeps it; JSON.parse gives the same
\* array back (ids and quantities are integers, names strings, prices numbers).
Stringify(items) == [t |-> "json", a |-> items]

\* getItems(): data ? JSON.parse(data) : []
getItems(storage) == IF storage = Null THEN <<>> ELSE storage.a

\* items.findIndex(item => item.id === id); 0 stands for -1.
FindIndex(items, id) ==
    IF \E k \in 1..Len(items) : items[k].id = id
    THEN CHOOSE k \in 1..Len(items) :
            items[k].id = id /\ \A j \in 1..(k - 1) : items[j].id # id
    ELSE 0

\* Variant: addItem pushes a new entry whether or not the product is there.
addItem_AlwaysPush(items, product) ==
    Append(items, [id |-> product.id, name |-> product.name,
                   price |-> product.price, quantity |-> 1])

\* The items array addItem saves.
addItem(items, product) ==
    LET existingIndex == FindIndex(items, product.id)
    IN  IF existingIndex > 0
        THEN [items EXCEPT ![existingIndex].quantity = @ + 1]
        ELSE Append(items, [id |-> product.id, name |-> product.name,
                            price |-> product.price, quantity |-> 1])

\* this.getItems().filter(item => item.id !== productId)
removeItem(items, productId) == SelectSeq(items, LAMBDA item : item.id # productId)

\* Math.max(1, quantity)
MathMax(a, b) == IF a >= b THEN a ELSE b

\* The items array updateQuantity saves, when the product is in the cart.
updateQuantity(items, productId, quantity) ==
    LET k == FindIndex(items, productId)
    IN  [items EXCEPT ![k].quantity = MathMax(1, quantity)]

CartFrame == UNCHANGED <<db, h, before, calls, fs, server>>

Called(op, id, quantity) == [op |-> op, id |-> id, quantity |-> quantity]

Cart_AddItem(product) ==
    /\ LET items == getItems(browser.storage) IN
       /\ \A k \in 1..Len(items) : items[k].id = product.id => items[k].quantity < MaxCartQty
       /\ browser' = [storage |-> Stringify(addItem(items, product)),
                      call |-> Called("addItem", product.id, 0),
                      before |-> browser.storage]
    /\ CartFrame

Cart_RemoveItem(productId) ==
    /\ browser' = [storage |-> Stringify(removeItem(getItems(browser.storage), productId)),
                   call |-> Called("removeItem", productId, 0),
                   before |-> browser.storage]
    /\ CartFrame

\* Nothing is saved when the product is not in the cart.
Cart_UpdateQuantity(productId, quantity) ==
    /\ LET items == getItems(browser.storage) IN
       browser' = [storage |-> IF FindIndex(items, productId) > 0
                               THEN Stringify(updateQuantity(items, productId, quantity))
                               ELSE browser.storage,
                   call |-> Called("updateQuantity", productId, quantity),
                   before |-> browser.storage]
    /\ CartFrame

\* localStorage.removeItem(this.STORAGE_KEY)
Cart_Clear ==
    /\ browser' = [storage |-> Null, call |-> Called("clear", 0, 0),
                   before |-> browser.storage]
    /\ CartFrame

\* ------------------------------------------------------------ environment
\* The store fails under a statement in flight (connection lost, pool error):
\* pool.execute rejects, the statement is not applied, the catch block answers 500.
\* (The health route issues no statement and has no such catch block.)
StorageFault(r) ==
    /\ UNCHANGED <<server, browser>>
    /\ h[r].pc \notin {"idle", "done"}
    /\ h[r].op # "health"
    /\ Respond500(r)
    /\ UNCHANGED <<db, before, calls>>
    /\ UNCHANGED fs

\* The response has been sent; the slot serves the next request.
NoSnapshot ==
    [products |-> <<>>, orders |-> <<>>, order_items |-> <<>>, call |-> 0,
     uploads |-> {}]

Return(r) ==
    /\ UNCHANGED <<server, browser>>
    /\ h[r].pc = "done"
    /\ h' = [h EXCEPT ![r] = Idle]
    /\ before' = [before EXCEPT ![r] = NoSnapshot]
    /\ UNCHANGED <<db, calls>>
    /\ UNCHANGED fs

\* ---------------------------------------------------------------- inputs
Item(id, name, price, quantity) ==
    [id |-> id, name |-> name, price |-> price, quantity |-> quantity]

\* A well-formed line item of the cart: {id, name, price, quantity}.
GoodItem(p, q) == Item(N(p), S("Widget"), N(WidgetPrice), N(q))

OrderedItems == {GoodItem(p, q) : p \in ProductIds, q \in 1..MaxQty}

\* Line items a caller can also send: quantity zero or negative, a field absent.
OddItems ==
    {GoodItem(1, 0), GoodItem(1, -1),
     Item(Undef, S("Widget"), N(WidgetPrice), N(1)),
     Item(N(1), S("Widget"), Undef, N(1)),
     Item(N(1), S("Widget"), N(WidgetPrice), Undef)}

ItemLists(items, n) == UNION {[1..k -> items] : k \in 1..n}

OrderBody(orderNumber, customerName, customerPhone, customerAddress, items) ==
    [orderNumber |-> orderNumber, customerName |-> customerName,
     customerPhone |-> customerPhone, customerEmail |-> Undef,
     customerAddress |-> customerAddress, notes |-> Undef,
     paymentMethod |-> S("cash"), items |-> items,
     subtotal |-> N(WidgetPrice), shipping |-> N(0), total |-> N(WidgetPrice),
     \* a field the handler does not read
     status |-> S("delivered")]

CompleteBody(number, items) ==
    OrderBody(S(number), S("Ann"), S("555"), S("1 Road"), Arr(items))

\* Requests with one mandatory part absent or empty.
IncompleteBodies ==
    LET its == Arr(<<GoodItem(1, 1)>>) IN
    {OrderBody(n, S("Ann"), S("555"), S("1 Road"), its) : n \in {Undef, S("")}}
    \cup {OrderBody(S("A"), v, S("555"), S("1 Road"), its) : v \in {Undef, S("")}}
    \cup {OrderBody(S("A"), S("Ann"), v, S("1 Road"), its) : v \in {Undef, S("")}}
    \cup {OrderBody(S("A"), S("Ann"), S("555"), v, its) : v \in {Undef, S("")}}
    \cup {OrderBody(S("A"), S("Ann"), S("555"), S("1 Road"), v) : v \in {Undef, Arr(<<>>)}}

\* A shipping fee a caller may add.
ShippingFee == Milli(7, 0)

RECURSIVE SumOfLines(_)
\* Sum of price x quantity over well-formed line items.
SumOfLines(items) ==
    IF Len(items) = 0 THEN 0
    ELSE items[1].price.n * items[1].quantity.n + SumOfLines(Tail(items))

\* The amounts a caller may send with line items: computed from them with or
\* without a shipping fee, a total that leaves the fee out, a subtotal that is
\* not the sum of the lines, negative amounts, and each amount absent.
Amounts(items) ==
    LET sum == SumOfLines(items)
        A(subtotal, shipping, total) ==
            [subtotal |-> subtotal, shipping |-> shipping, total |-> total]
    IN  {A(N(sum), N(0), N(sum)),
         A(N(sum), N(ShippingFee), N(sum + ShippingFee)),
         A(N(sum), N(ShippingFee), N(sum)),
         A(N(sum + 1), N(0), N(sum + 1)),
         A(N(-sum), N(0), N(-sum)),
         A(N(sum), N(-ShippingFee), N(sum - ShippingFee)),
         A(N(sum), N(0), N(-1)),
         A(Undef, N(0), N(sum)),
         A(N(sum), Undef, N(sum)),
         A(N(sum), N(0), Undef)}

AmountBodies(numbers, lists) ==
    UNION {{[CompleteBody(number, its) EXCEPT !.subtotal = a.subtotal,
                                              !.shipping = a.shipping,
                                              !.total = a.total] :
               number \in numbers, a \in Amounts(its)} :
           its \in lists}

OrderBodies(numbers, items, n) ==
    {CompleteBody(number, its) : number \in numbers, its \in ItemLists(items, n)}
    \cup IncompleteBodies

StatusInputs ==
    {S(s) : s \in validStatuses} \cup {S("not-a-status"), S(""), Undef}

StockInputs == {N(n) : n \in -1..MaxStock}

ProductFields(name, description, price, stock, image_url, file) ==
    [name |-> name, description |-> description, price |-> price, stock |-> stock,
     image_url |-> image_url, file |-> file]

NewProductBodies ==
    {ProductFields(nm, Undef, pr, st, Undef, Undef) :
        nm \in {Undef, S("Widget")},
        pr \in {Undef, N(0), N(WidgetPrice)},
        st \in StockInputs \cup {Undef, S("abc")}}

ProductUpdates ==
    {ProductFields(nm, Undef, pr, st, Undef, Undef) :
        nm \in {Undef, S("Widget")},
        pr \in {Undef, N(WidgetPrice)},
        st \in StockInputs \cup {Undef}}

\* 20.000
GadgetPrice == Milli(20, 0)

\* A multipart product form with every field filled in, and no image.
GoodProduct ==
    ProductFields(S("Widget"), S("Nice"), NS(WidgetPrice), NS(MaxStock), Undef, Undef)

\* The form with one field absent, empty or odd, and forms with an image file.
CreateRequests ==
    {GoodProduct}
    \cup {[GoodProduct EXCEPT !.name = v] : v \in {Undef, S("")}}
    \cup {[GoodProduct EXCEPT !.description = v] : v \in {Undef, S("")}}
    \cup {[GoodProduct EXCEPT !.price = v] : v \in {Undef, S(""), S("abc"), N(0), NS(0)}}
    \cup {[GoodProduct EXCEPT !.stock = v] : v \in {Undef, S(""), S("abc"), NS(-1), NS(0)}}
    \cup {[GoodProduct EXCEPT !.image_url = v] : v \in {S(""), S(ExternalUrl)}}
    \cup {[b EXCEPT !.file = NewUpload] :
             b \in {GoodProduct,
                    [GoodProduct EXCEPT !.name = Undef],
                    [GoodProduct EXCEPT !.image_url = S(ExternalUrl)]}}

\* update(id, {}): no field and no image.
NoFields == ProductFields(Undef, Undef, Undef, Undef, Undef, Undef)

\* Updates of one field, to an empty or to a new value, and updates with an image.
UpdateRequests ==
    {NoFields}
    \cup {[NoFields EXCEPT !.name = v] : v \in {S(""), S("Gadget")}}
    \cup {[NoFields EXCEPT !.description = v] : v \in {S(""), S("New")}}
    \cup {[NoFields EXCEPT !.price = v] : v \in {S(""), S("abc"), NS(GadgetPrice)}}
    \cup {[NoFields EXCEPT !.stock = v] : v \in {S(""), NS(0), NS(-1)}}
    \cup {[NoFields EXCEPT !.image_url = v] : v \in {S(""), S(OtherUrl)}}
    \cup {[NoFields EXCEPT !.file = NewUpload],
          [NoFields EXCEPT !.file = NewUpload, !.image_url = S(OtherUrl)]}

\* ---------------------------------------------------------- specifications
EmptyTable == [k \in {} |-> 0]

\* UPLOADS_DIR as it is first created: empty.
InitUploads == uploads = {} /\ nextFile = 1

InitHandlers(n) ==
    /\ h = [r \in 1..n |-> Idle]
    /\ before = [r \in 1..n |-> NoSnapshot]
    /\ calls = 0

\* The store as createTables leaves it, and one request served at a time.
Init ==
    /\ products = EmptyTable /\ nextProductId = 1
    /\ orders = EmptyTable /\ nextOrderId = 1
    /\ order_items = <<>>
    /\ InitUploads
    /\ InitHandlers(1)
    /\ browser = NewBrowser
    /\ server = Serving

Next ==
    \/ \E r \in Slots, body \in OrderBodies({"A", "B"}, {GoodItem(1, MaxQty), GoodItem(1, -1)}, 1) :
          PostOrders_Receive(r, body)
    \/ \E r \in Slots : PostOrders_InsertOrder(r)
    \/ \E r \in Slots : PostOrders_InsertItem(r)
    \/ \E r \in Slots : PostOrders_UpdateStock(r)
    \/ \E r \in Slots, id \in OrderIds : GetOrder_Receive(r, id)
    \/ \E r \in Slots : GetOrder_SelectOrder(r)
    \/ \E r \in Slots : GetOrder_SelectItems(r)
    \/ \E r \in Slots, id \in OrderIds, status \in StatusInputs :
          PutOrderStatus_Receive(r, id, status)
    \/ \E r \in Slots : PutOrderStatus_SelectOrder(r)
    \/ \E r \in Slots : PutOrderStatus_Update(r)
    \/ \E r \in Slots, id \in OrderIds : DeleteOrder_Receive(r, id)
    \/ \E r \in Slots : DeleteOrder_SelectOrder(r)
    \/ \E r \in Slots : DeleteOrder_Delete(r)
    \/ \E r \in Slots, body \in NewProductBodies : PostProducts_Receive(r, body)
    \/ \E r \in Slots : PostProducts_Insert(r)
    \/ \E r \in Slots : PostProducts_Select(r)
    \/ \E r \in Slots, id \in ProductIds, body \in ProductUpdates :
          PutProduct_Receive(r, id, body)
    \/ \E r \in Slots : PutProduct_SelectExisting(r)
    \/ \E r \in Slots : PutProduct_Update(r)
    \/ \E r \in Slots : PutProduct_SelectUpdated(r)
    \/ \E r \in Slots, id \in ProductIds : DeleteProduct_Receive(r, id)
    \/ \E r \in Slots : DeleteProduct_SelectExisting(r)
    \/ \E r \in Slots : DeleteProduct_Delete(r)
    \/ \E r \in Slots : StorageFault(r)
    \/ \E r \in Slots : Return(r)

Spec == Init /\ [][Next]_vars

\* createOrder in detail: a catalogue of one or two products with any stock a
\* product create can leave, one order number, every shape of line-item list.
ProductRow(stock) ==
    [name |-> "Widget", description |-> "", price |-> WidgetPrice, stock |-> stock,
     image_url |-> Null]

InitOrder ==
    /\ \E k \in 1..MaxProducts :
          /\ products \in [1..k -> {ProductRow(st) : st \in -1..MaxStock}]
          /\ nextProductId = k + 1
    /\ orders = EmptyTable /\ nextOrderId = 1
    /\ order_items = <<>>
    /\ InitUploads
    /\ InitHandlers(1)
    /\ browser = NewBrowser
    /\ server = Serving

NextOrder ==
    \/ \E r \in Slots, body \in OrderBodies({"A"}, OrderedItems \cup OddItems, MaxItems) :
          PostOrders_Receive(r, body)
    \/ \E r \in Slots : PostOrders_InsertOrder(r)
    \/ \E r \in Slots : PostOrders_InsertItem(r)
    \/ \E r \in Slots : PostOrders_UpdateStock(r)
    \/ \E r \in Slots, id \in OrderIds : GetOrder_Receive(r, id)
    \/ \E r \in Slots : GetOrder_SelectOrder(r)
    \/ \E r \in Slots : GetOrder_SelectItems(r)
    \/ \E r \in Slots : StorageFault(r)
    \/ \E r \in Slots : Return(r)

SpecOrder == InitOrder /\ [][NextOrder]_vars

\* Two requests served concurrently: their statements interleave in any order.
ConcurrentItems == {GoodItem(1, q) : q \in 1..MaxQty} \cup {GoodItem(1, -1)}

ConcurrentBodies ==
    {CompleteBody(number, its) : number \in {"A", "B"}, its \in ItemLists(ConcurrentItems, 1)}

InitConc ==
    /\ \E st \in 0..MaxStock : products = [k \in {1} |-> ProductRow(st)]
    /\ nextProductId = 2
    /\ orders = EmptyTable /\ nextOrderId = 1
    /\ order_items = <<>>
    /\ InitUploads
    /\ InitHandlers(2)
    /\ browser = NewBrowser
    /\ server = Serving

NextConc ==
    \/ \E r \in Slots, body \in ConcurrentBodies :
          PostOrders_Receive(r, body)
    \/ \E r \in Slots : PostOrders_InsertOrder(r)
    \/ \E r \in Slots : PostOrders_InsertItem(r)
    \/ \E r \in Slots : PostOrders_UpdateStock(r)
    \/ \E r \in Slots, id \in OrderIds : GetOrder_Receive(r, id)
    \/ \E r \in Slots : GetOrder_SelectOrder(r)
    \/ \E r \in Slots : GetOrder_SelectItems(r)
    \/ \E r \in Slots : StorageFault(r)
    \/ \E r \in Slots : Return(r)

SpecConc == InitConc /\ [][NextConc]_vars

\* The catalogue in detail: product forms of every shape, with and without image
\* files, on an empty store, one request at a time.
InitProduct ==
    /\ products = EmptyTable /\ nextProductId = 1
    /\ orders = EmptyTable /\ nextOrderId = 1
    /\ order_items = <<>>
    /\ InitUploads
    /\ InitHandlers(1)
    /\ browser = NewBrowser
    /\ server = Serving

NextProduct ==
    \/ \E r \in Slots, body \in CreateRequests : PostProducts_Receive(r, body)
    \/ \E r \in Slots : PostProducts_Insert(r)
    \/ \E r \in Slots : PostProducts_Select(r)
    \/ \E r \in Slots, id \in ProductIds : GetProduct_Receive(r, id)
    \/ \E r \in Slots : GetProduct_Select(r)
    \/ \E r \in Slots, id \in ProductIds, body \in UpdateRequests :
          PutProduct_Receive(r, id, body)
    \/ \E r \in Slots : PutProduct_SelectExisting(r)
    \/ \E r \in Slots : PutProduct_Update(r)
    \/ \E r \in Slots : PutProduct_SelectUpdated(r)
    \/ \E r \in Slots, id \in ProductIds : DeleteProduct_Receive(r, id)
    \/ \E r \in Slots : DeleteProduct_SelectExisting(r)
    \/ \E r \in Slots : DeleteProduct_Delete(r)
    \/ \E r \in Slots : StorageFault(r)
    \/ \E r \in Slots : Return(r)

SpecProduct == InitProduct /\ [][NextProduct]_vars

\* One product in stock, and orders whose amounts the caller chose.
InitAmounts ==
    /\ products = (1 :> ProductRow(MaxStock)) /\ nextProductId = 2
    /\ orders = EmptyTable /\ nextOrderId = 1
    /\ order_items = <<>>
    /\ InitUploads
    /\ InitHandlers(1)
    /\ browser = NewBrowser
    /\ server = Serving

NextAmounts ==
    \/ \E r \in Slots,
          body \in AmountBodies({"A", "B"},
                                {<<GoodItem(1, 1)>>, <<GoodItem(1, MaxQty), GoodItem(1, 1)>>}) :
          PostOrders_Receive(r, body)
    \/ \E r \in Slots : PostOrders_InsertOrder(r)
    \/ \E r \in Slots : PostOrders_InsertItem(r)
    \/ \E r \in Slots : PostOrders_UpdateStock(r)
    \/ \E r \in Slots : StorageFault(r)
    \/ \E r \in Slots : Return(r)

SpecAmounts == InitAmounts /\ [][NextAmounts]_vars

\* A product update served concurrently with createOrder on the same product.
RaceUpdates ==
    {NoFields, [NoFields EXCEPT !.name = S("Gadget")], [NoFields EXCEPT !.stock = NS(0)]}

InitRace ==
    /\ \E st \in 0..MaxStock : products = [k \in {1} |-> ProductRow(st)]
    /\ nextProductId = 2
    /\ orders = EmptyTable /\ nextOrderId = 1
    /\ order_items = <<>>
    /\ InitUploads
    /\ InitHandlers(2)
    /\ browser = NewBrowser
    /\ server = Serving

NextRace ==
    \/ \E r \in Slots, q \in 1..MaxQty :
          PostOrders_Receive(r, CompleteBody("A", <<GoodItem(1, q)>>))
    \/ \E r \in Slots : PostOrders_InsertOrder(r)
    \/ \E r \in Slots : PostOrders_InsertItem(r)
    \/ \E r \in Slots : PostOrders_UpdateStock(r)
    \/ \E r \in Slots, id \in ProductIds, body \in RaceUpdates :
          PutProduct_Receive(r, id, body)
    \/ \E r \in Slots : PutProduct_SelectExisting(r)
    \/ \E r \in Slots : PutProduct_Update(r)
    \/ \E r \in Slots : PutProduct_SelectUpdated(r)
    \/ \E r \in Slots : StorageFault(r)
    \/ \E r \in Slots : Return(r)

SpecRace == InitRace /\ [][NextRace]_vars

\* createOrder served concurrently with deleteOrder.
InitOwnership ==
    /\ products = (1 :> ProductRow(MaxStock)) /\ nextProductId = 2
    /\ orders = EmptyTable /\ nextOrderId = 1
    /\ order_items = <<>>
    /\ InitUploads
    /\ InitHandlers(2)
    /\ browser = NewBrowser
    /\ server = Serving

NextOwnership ==
    \/ \E r \in Slots, number \in {"A", "B"},
          its \in {<<GoodItem(1, 1)>>, <<GoodItem(1, 1), GoodItem(1, 1)>>} :
          PostOrders_Receive(r, CompleteBody(number, its))
    \/ \E r \in Slots : PostOrders_InsertOrder(r)
    \/ \E r \in Slots : PostOrders_InsertItem(r)
    \/ \E r \in Slots : PostOrders_UpdateStock(r)
    \/ \E r \in Slots, id \in OrderIds : DeleteOrder_Receive(r, id)
    \/ \E r \in Slots : DeleteOrder_SelectOrder(r)
    \/ \E r \in Slots : DeleteOrder_Delete(r)
    \/ \E r \in Slots : StorageFault(r)
    \/ \E r \in Slots : Return(r)

SpecOwnership == InitOwnership /\ [][NextOwnership]_vars

\* The shop page alone: any sequence of calls of the Cart object.
InitCart ==
    /\ products = EmptyTable /\ nextProductId = 1
    /\ orders = EmptyTable /\ nextOrderId = 1
    /\ order_items = <<>>
    /\ InitUploads
    /\ InitHandlers(1)
    /\ browser = NewBrowser
    /\ server = Serving

NextCart ==
    \/ \E id \in CartProductIds : Cart_AddItem(CartProduct(id))
    \/ \E id \in CartProductIds : Cart_RemoveItem(id)
    \/ \E id \in CartProductIds, quantity \in -1..MaxCartQty :
          Cart_UpdateQuantity(id, quantity)
    \/ Cart_Clear

SpecCart == InitCart /\ [][NextCart]_vars

\* The process from its start, over a fresh store without relations or over the
\* store an earlier run left: the relations, one product and one order.
InitBoot ==
    /\ \/ /\ server = Booting({})
          /\ products = EmptyTable /\ nextProductId = 1
          /\ orders = EmptyTable /\ nextOrderId = 1
          /\ order_items = <<>>
       \/ /\ server = Booting(Schema)
          /\ products = (1 :> ProductRow(1)) /\ nextProductId = 2
          /\ orders = (1 :> NewOrderRow(CompleteBody("A", <<GoodItem(1, 1)>>)))
          /\ nextOrderId = 2
          /\ order_items = <<ItemRow(1, GoodItem(1, 1))>>
    /\ InitUploads
    /\ InitHandlers(1)
    /\ browser = NewBrowser

\* The steps of startServer and of the functions it awaits.
BootStep ==
    \/ \E ok \in BOOLEAN : InitializeDatabase_Connect(ok)
    \/ \E ok \in BOOLEAN : CreateTables_Products(ok)
    \/ \E outcome \in {"present", "swallowed", "altered", "alter_failed"} :
          CreateTables_CheckImageUrl(outcome)
    \/ \E ok \in BOOLEAN : CreateTables_Orders(ok)
    \/ \E ok \in BOOLEAN : CreateTables_OrderItems(ok)
    \/ InitializeDatabase_Sleep
    \/ StartServer_Listen

NextBoot ==
    \/ BootStep
    \/ \E r \in Slots, id \in OrderIds : GetOrder_Receive(r, id)
    \/ \E r \in Slots : GetOrder_SelectOrder(r)
    \/ \E r \in Slots : GetOrder_SelectItems(r)
    \/ \E r \in Slots : Health_Receive(r)
    \/ \E r \in Slots, ok \in BOOLEAN : Health_GetConnection(r, ok)
    \/ \E r \in Slots, ok \in BOOLEAN : Health_Ping(r, ok)
    \/ \E r \in Slots : StorageFault(r)
    \/ \E r \in Slots : Return(r)

SpecBoot == InitBoot /\ [][NextBoot]_vars

\* The event loop runs the continuation of every await of startServer once its
\* promise settles, and the 5 s timer of the retry fires.
SpecBootLive == SpecBoot /\ WF_vars(BootStep)

\* ------------------------------------------------------------- properties
Max0(x) == IF x > 0 THEN x ELSE 0

RECURSIVE OrderedQty(_, _)
\* Total quantity of product p over a list of well-formed line items.
OrderedQty(items, p) ==
    IF Len(items) = 0 THEN 0
    ELSE (IF items[1].id.n = p THEN items[1].quantity.n ELSE 0)
         + OrderedQty(Tail(items), p)

Referenced(items, p) == \E k \in 1..Len(items) : items[k].id.n = p

Served(r, op) == h[r].op = op /\ h[r].pc # "idle"
Answered(r, op) == h[r].op = op /\ h[r].pc = "done"

\* The three tables are as they were when the request of slot r arrived.
TablesUnchanged(r) ==
    /\ products = before[r].products
    /\ orders = before[r].orders
    /\ order_items = before[r].order_items

\* C1: a createOrder that fails after its order row was inserted leaves neither
\* the order row nor any of its line items (getOrder would answer NotFound).
C1_AllOrNothing ==
    \A r \in Slots :
        (Answered(r, "createOrder") /\ h[r].code = 500 /\ h[r].orderId # 0)
        => (h[r].orderId \notin DOMAIN orders /\ Len(ItemsOf(h[r].orderId)) = 0)

\* C2: when createOrder fails, every product's stock is what it was before the
\* call.
C2_StockRolledBack ==
    \A r \in Slots :
        (Answered(r, "createOrder") /\ h[r].code = 500)
        => products = before[r].products

AllQuantitiesPositive(items) ==
    \A k \in 1..Len(items) : items[k].quantity.t = "number" /\ items[k].quantity.n >= 1

\* C3: after a successful createOrder whose quantities are all >= 1, a referenced
\* product has stock max(0, stock_before - q), q the total quantity ordered of
\* it, and an unreferenced product has its stock unchanged.
C3_StockAfterOrder ==
    \A r \in Slots :
        (Answered(r, "createOrder") /\ h[r].code = 201
            /\ AllQuantitiesPositive(h[r].body.items.a))
        => /\ DOMAIN products = DOMAIN before[r].products
           /\ \A p \in DOMAIN products :
                 products[p].stock =
                    IF Referenced(h[r].body.items.a, p)
                    THEN Max0(before[r].products[p].stock
                              - OrderedQty(h[r].body.items.a, p))
                    ELSE before[r].products[p].stock

\* An order of one product twice, for more than there is in stock, succeeded and
\* left it at zero, beside a product it does not reference.
C3_Witness ==
    \E r \in Slots :
        /\ Answered(r, "createOrder") /\ h[r].code = 201
        /\ AllQuantitiesPositive(h[r].body.items.a)
        /\ Len(h[r].body.items.a) = 2
        /\ h[r].body.items.a[1].id = h[r].body.items.a[2].id
        /\ \E p, u \in DOMAIN products :
              /\ Referenced(h[r].body.items.a, p)
              /\ ~Referenced(h[r].body.items.a, u)
              /\ before[r].products[p].stock > 0
              /\ before[r].products[p].stock < OrderedQty(h[r].body.items.a, p)
              /\ products[p].stock = 0
              /\ products[u].stock > 0
              /\ h[r].orderId \in DOMAIN orders

\* C4: every product's stock is >= 0 in every reachable state.
C4_StockNonNegative == \A p \in DOMAIN products : products[p].stock >= 0

\* Every slot holds a createOrder that was answered 201, and no other request
\* was ever received.
AllOrdersSucceeded ==
    /\ calls = Cardinality(Slots)
    /\ \A r \in Slots : Answered(r, "createOrder") /\ h[r].code = 201

\* The catalogue before the first of the requests arrived.
InitialProducts == (CHOOSE b \in {before[r] : r \in Slots} : b.call = 1).products

RECURSIVE SumOrdered(_, _)
\* Total quantity of product p ordered by the requests of a set of slots.
SumOrdered(slots, p) ==
    IF slots = {} THEN 0
    ELSE LET r == CHOOSE x \in slots : TRUE IN
         OrderedQty(h[r].body.items.a, p) + SumOrdered(slots \ {r}, p)

\* C5: under concurrent createOrder calls on one product the stock is never
\* negative and, once all calls have succeeded, it is
\* max(0, initial stock - sum of all ordered quantities).
C5_ConcurrentDecrements ==
    /\ \A p \in DOMAIN products : products[p].stock >= 0
    /\ AllOrdersSucceeded =>
          \A p \in DOMAIN products :
             products[p].stock = Max0(InitialProducts[p].stock - SumOrdered(Slots, p))

\* The same with well-formed quantities only (all >= 1): this part of C5 holds in
\* every interleaving, because each UPDATE ... GREATEST(0, stock - ?) is atomic.
ConcurrentDecrementsOfPositiveQuantities ==
    (\A r \in Slots : h[r].op = "createOrder" => AllQuantitiesPositive(h[r].body.items.a))
    => C5_ConcurrentDecrements

\* C6: a getOrder never returns an order with fewer line items than the
\* createOrder request that is creating (or has created) it contained.
C6_NoPartialRead ==
    \A r, c \in Slots :
        (Answered(r, "getOrder") /\ h[r].code = 200
            /\ Served(c, "createOrder") /\ h[c].orderId = h[r].id /\ h[c].code # 500)
        => Len(h[r].out.items) = Len(h[c].body.items.a)

\* A line item without product id or unit price, or whose quantity is not a
\* positive integer.
BadItem(item) ==
    \/ item.id.t = "undefined"
    \/ item.price.t = "undefined"
    \/ item.quantity.t # "number"
    \/ item.quantity.n < 1

MandatoryMissing(body) ==
    \/ body.orderNumber \in {Undef, S("")}
    \/ body.customerName \in {Undef, S("")}
    \/ body.customerPhone \in {Undef, S("")}
    \/ body.customerAddress \in {Undef, S("")}
    \/ body.items \in {Undef, Arr(<<>>)}

\* C7: a createOrder request with such a line item is rejected before any write:
\* while it is served the tables stay as they were, and it is never answered 201.
C7_BadItemRejected ==
    \A r \in Slots :
        (Served(r, "createOrder") /\ ~MandatoryMissing(h[r].body)
            /\ \E k \in 1..Len(h[r].body.items.a) : BadItem(h[r].body.items.a[k]))
        => (TablesUnchanged(r) /\ h[r].code # 201)

\* C8: a createOrder request without order number, customer name, phone or
\* address, or with an absent or empty item list, is answered 400 at once and
\* the tables are as they were.
C8_IncompleteRejected ==
    \A r \in Slots :
        (Served(r, "createOrder") /\ MandatoryMissing(h[r].body))
        => (h[r].pc = "done" /\ h[r].code = 400 /\ TablesUnchanged(r)
            /\ h[r].orderId = 0)

\* A request without phone number was rejected while an order with line items
\* and a stocked product were in the store.
C8_Witness ==
    \E r \in Slots :
        /\ Answered(r, "createOrder") /\ h[r].code = 400
        /\ h[r].body.customerPhone = Undef
        /\ DOMAIN orders # {} /\ Len(order_items) > 0
        /\ \E p \in DOMAIN products : products[p].stock > 0

NotAStatus(status) == status.t # "string" \/ status.s \notin StatusEnum

\* C9: setStatus on an existing order with a value outside the six statuses is
\* answered 400 and no order's status changes.
C9_InvalidStatusRejected ==
    \A r \in Slots :
        (Served(r, "setStatus") /\ NotAStatus(h[r].body)
            /\ h[r].id \in DOMAIN before[r].orders)
        => (h[r].pc = "done" /\ h[r].code = 400 /\ orders = before[r].orders)

\* "not-a-status" was rejected for one of two existing orders.
C9_Witness ==
    \E r \in Slots :
        /\ Answered(r, "setStatus") /\ h[r].code = 400
        /\ h[r].body = S("not-a-status")
        /\ h[r].id \in DOMAIN orders
        /\ Cardinality(DOMAIN orders) = 2

\* C10: setStatus(id, t) with t one of the six statuses, on an existing order in
\* any status s, is never refused: unless the store fails under it (500), it
\* answers 200 with newStatus = t and the order then has status t.
C10_AnyTransition ==
    \A r \in Slots :
        (Answered(r, "setStatus") /\ ~NotAStatus(h[r].body)
            /\ h[r].id \in DOMAIN before[r].orders)
        => \/ h[r].code = 500
           \/ /\ h[r].code = 200
              /\ h[r].out = [t |-> "status", newStatus |-> h[r].body.s]
              /\ h[r].id \in DOMAIN orders
              /\ orders[h[r].id].status = h[r].body.s

\* A cancelled order was set back to pending.
C10_Witness ==
    \E r \in Slots :
        /\ Answered(r, "setStatus") /\ h[r].code = 200
        /\ h[r].id \in DOMAIN before[r].orders
        /\ before[r].orders[h[r].id].status = "cancelled"
        /\ orders[h[r].id].status = "pending"

\* C11: the status of every persisted order is one of the six statuses, and an
\* order is pending from its creation until a setStatus on it succeeds, whatever
\* the createOrder request carried.
C11_Step ==
    \A o \in DOMAIN orders' :
        IF o \notin DOMAIN orders
        THEN orders'[o].status = "pending"
        ELSE orders'[o].status # orders[o].status
             => \E r \in Slots :
                   /\ h[r].op = "setStatus" /\ h[r].pc = "update_status" /\ h[r].id = o
                   /\ h'[r].code = 200
                   /\ orders'[o].status = h[r].body.s

C11_PendingUntilSetStatus ==
    /\ [](\A o \in DOMAIN orders : orders[o].status \in StatusEnum)
    /\ [][C11_Step]_vars

\* An order whose request carried status "delivered" was created, and is pending.
C11_Witness ==
    \E r \in Slots :
        /\ Answered(r, "createOrder") /\ h[r].code = 201
        /\ h[r].body.status = S("delivered")
        /\ h[r].orderId \in DOMAIN orders
        /\ orders[h[r].orderId].status = "pending"

\* The line items of the orders other than id.
ItemsOfOthers(items, id) == SelectSeq(items, LAMBDA it : it.order_id # id)

\* C12: after a successful deleteOrder(id) the order row and its line items are
\* gone, and every other order and its line items are as they were.
C12_DeleteOrderCascades ==
    \A r \in Slots :
        (Answered(r, "deleteOrder") /\ h[r].code = 200)
        => /\ h[r].id \notin DOMAIN orders
           /\ Len(ItemsOf(h[r].id)) = 0
           /\ orders = [o \in DOMAIN before[r].orders \ {h[r].id} |-> before[r].orders[o]]
           /\ ItemsOfOthers(order_items, h[r].id)
                 = ItemsOfOthers(before[r].order_items, h[r].id)

\* One of two orders, each with a line item, was deleted; the other is there
\* with its line item.
C12_Witness ==
    \E r \in Slots :
        /\ Answered(r, "deleteOrder") /\ h[r].code = 200
        /\ Cardinality(DOMAIN before[r].orders) = 2
        /\ \A o \in DOMAIN before[r].orders :
              \E k \in 1..Len(before[r].order_items) : before[r].order_items[k].order_id = o
        /\ Cardinality(DOMAIN orders) = 1
        /\ Len(order_items) = 1

\* C13: deleteOrder and setStatus (to cancelled too) leave every product's stock
\* as it was.
C13_NoStockRestore ==
    \A r \in Slots :
        (Served(r, "setStatus") \/ Served(r, "deleteOrder"))
        => products = before[r].products

\* An order for MaxQty units of a product, which is out of stock, was cancelled,
\* and the product is still out of stock.
C13_Witness ==
    \E r \in Slots :
        /\ Answered(r, "setStatus") /\ h[r].code = 200
        /\ h[r].body = S("cancelled")
        /\ h[r].id \in DOMAIN orders /\ orders[h[r].id].status = "cancelled"
        /\ \E k \in 1..Len(order_items) :
              /\ order_items[k].order_id = h[r].id
              /\ order_items[k].quantity = MaxQty
              /\ order_items[k].product_id \in DOMAIN products
              /\ products[order_items[k].product_id].stock = 0

\* C14: product update and product delete leave every persisted order item as it
\* was, and the order items that reference a product do not block its deletion.
C14_ProductEditsKeepOrderItems ==
    \A r \in Slots :
        /\ (Served(r, "updateProduct") \/ Served(r, "deleteProduct"))
           => order_items = before[r].order_items
        /\ (Answered(r, "deleteProduct") /\ h[r].id \in DOMAIN before[r].products)
           => \/ h[r].code = 500
              \/ h[r].code = 200 /\ h[r].id \notin DOMAIN products

\* A product was deleted, and the line item of an order that references it is
\* still there, with the name, price and quantity of the order.
C14_Witness ==
    \E r \in Slots :
        /\ Answered(r, "deleteProduct") /\ h[r].code = 200
        /\ h[r].id \notin DOMAIN products
        /\ \E k \in 1..Len(order_items) :
              /\ order_items[k].product_id = h[r].id
              /\ order_items[k].product_name = "Widget"
              /\ order_items[k].product_price = WidgetPrice
              /\ order_items[k].quantity = MaxQty
              /\ order_items[k].order_id \in DOMAIN orders

\* No request is being served.
Quiescent == \A r \in Slots : h[r].pc \in {"idle", "done"}

Referencing(f) == {p \in DOMAIN products : FileOf(products[p].image_url) = {f}}

\* C15: once the product calls have been answered, every file of the asset
\* store is the image of some existing product.
C15_NoOrphanAsset ==
    Quiescent => \A f \in uploads : Referencing(f) # {}

\* C16: after a successful update with a new image file of a product whose image
\* was a local file, the previous file is gone and the product references the
\* new file, which is in the asset store.
C16_ImageReplaced ==
    \A r \in Slots :
        (Answered(r, "updateProduct") /\ h[r].code = 200
            /\ h[r].body.file.t = "filename"
            /\ h[r].id \in DOMAIN before[r].products
            /\ IsLocalImage(before[r].products[h[r].id].image_url))
        => /\ FileOf(before[r].products[h[r].id].image_url) \cap uploads = {}
           /\ h[r].id \in DOMAIN products
           /\ products[h[r].id].image_url = h[r].body.file
           /\ h[r].body.file.n \in uploads
           /\ h[r].out.row.image_url = h[r].body.file

\* The first upload, which was the product's image and was in the asset store,
\* has been replaced by the second.
C16_Witness ==
    \E r \in Slots :
        /\ Answered(r, "updateProduct") /\ h[r].code = 200
        /\ h[r].body.file = File(2)
        /\ h[r].id \in DOMAIN before[r].products
        /\ before[r].products[h[r].id].image_url = File(1)
        /\ 1 \in before[r].uploads
        /\ uploads = {2}
        /\ products[h[r].id].image_url = File(2)

\* C17: delete(id) on an existing product removes the row and its local image
\* file; if removing the file fails, the call still succeeds and the row is
\* removed.  (A call under which the store itself fails is left out.)
C17_DeleteSucceedsWithoutFile ==
    \A r \in Slots :
        (Answered(r, "deleteProduct") /\ h[r].id \in DOMAIN before[r].products
            /\ h[r].out # [t |-> "error"])
        => /\ h[r].code = 200
           /\ h[r].id \notin DOMAIN products

\* The product fields an update can carry.
Retained(r, f) == products[h[r].id][f] = before[r].products[h[r].id][f]

Absent(body, f) ==
    IF f = "image_url"
    THEN body.image_url.t = "undefined" /\ body.file.t = "undefined"
    ELSE body[f].t = "undefined"

PresentEmpty(body, f) ==
    /\ body[f] = S("")
    /\ f = "image_url" => body.file.t = "undefined"

\* The stored value is not the one an empty field stands for.
StoredNonEmpty(row, f) ==
    CASE f = "name" -> row.name # ""
      [] f = "description" -> row.description # ""
      [] f = "price" -> row.price # 0
      [] f = "stock" -> row.stock # 0
      [] f = "image_url" -> row.image_url \notin {Null, S("")}

\* C18: in a successful product update a field absent from the request keeps
\* its stored value, and a field present with an empty value does not: the
\* stored value is not retained.
C18_AbsentVersusEmpty ==
    \A r \in Slots :
        (Answered(r, "updateProduct") /\ h[r].code = 200
            /\ h[r].id \in DOMAIN before[r].products /\ h[r].id \in DOMAIN products)
        => \A f \in {"name", "description", "price", "stock", "image_url"} :
              /\ Absent(h[r].body, f) => Retained(r, f)
              /\ (PresentEmpty(h[r].body, f)
                    /\ StoredNonEmpty(before[r].products[h[r].id], f))
                 => ~Retained(r, f)

\* C19: update(id, {}) on an existing product, unless the store fails under it,
\* answers with the product as it was stored, changes no product and removes
\* no file.
C19_EmptyUpdate ==
    \A r \in Slots :
        (Served(r, "updateProduct") /\ h[r].body = NoFields
            /\ h[r].id \in DOMAIN before[r].products)
        => /\ uploads = before[r].uploads
           /\ products = before[r].products
           /\ h[r].pc = "done"
              => \/ h[r].code = 500
                 \/ /\ h[r].code = 200
                    /\ h[r].out = formatProduct(<<before[r].products[h[r].id]>>)

\* update(id, {}) answered with a product that has a description, a stock and a
\* local image, whose file is in the asset store.
C19_Witness ==
    \E r \in Slots :
        /\ Answered(r, "updateProduct") /\ h[r].code = 200
        /\ h[r].body = NoFields
        /\ h[r].out.found
        /\ h[r].out.row.name = "Widget" /\ h[r].out.row.description = "Nice"
        /\ h[r].out.row.price = WidgetPrice /\ h[r].out.row.stock = MaxStock
        /\ h[r].out.row.image_url = File(1)
        /\ 1 \in uploads

\* A string that spells no number.
NonNumeric(v) == v.t = "string" /\ v.s # ""

\* C20: a product create without name or price, or with a non-numeric price or
\* stock, is answered 400 and inserts no row.
C20_CreateRejectsBadInput ==
    \A r \in Slots :
        (Served(r, "createProduct")
            /\ \/ h[r].body.name \in {Undef, S("")}
               \/ h[r].body.price \in {Undef, S("")}
               \/ NonNumeric(h[r].body.price)
               \/ NonNumeric(h[r].body.stock))
        => /\ h[r].pc = "done" /\ h[r].code = 400
           /\ products = before[r].products

\* ------------------------------------------------------------- bootstrap
\* initializeDatabase has returned (true or false) to startServer.
Returned == server.pc \in {"listen", "serving"}

\* C21: the storage bootstrap always terminates, makes at most 10 connection
\* attempts, makes no further attempt after the first connection attempt that
\* succeeds, and reports failure only after exactly 10 failed connection attempts.
C21_BootstrapTerminates ==
    /\ <>Returned
    /\ [](server.attempts <= Retries)
    /\ [][server.connectedAt # 0 => server'.attempts = server.attempts]_vars
    /\ [](Returned /\ ~server.dbConnected => server.refused = Retries)

\* C21 as the code has it: a pass of the loop is a connection attempt followed
\* by schema-ensure. The bootstrap always terminates, makes at most 10 passes,
\* makes no further pass after the first one in which the connection and
\* schema-ensure both succeed, and reports failure only after exactly 10 passes
\* have failed, each by a refused connection or by a schema-ensure error.
C21_BootstrapTerminates_Passes ==
    /\ <>Returned
    /\ [](server.attempts <= Retries)
    /\ [][server.dbConnected => server'.attempts = server.attempts]_vars
    /\ [](Returned /\ ~server.dbConnected =>
            server.failed = Retries /\ server.attempts = Retries)

\* Failure reported after 10 failed passes, some of which had obtained a
\* connection and failed in schema-ensure.
C21_Witness ==
    /\ Returned /\ ~server.dbConnected
    /\ server.failed = Retries
    /\ server.connectedAt # 0
    /\ server.refused < Retries

\* C22: in every run the request-handling listener is eventually started,
\* whether the bootstrap succeeded or all of its attempts failed.
C22_ListenerStarted == <>server.listening

\* The listener started after a bootstrap that failed 10 times.
C22_Witness ==
    server.listening /\ ~server.dbConnected /\ server.failed = Retries

\* A request handler of slot r has a statement in flight or still to issue.
AtStorage(r) == h[r].pc \notin {"idle", "done"}

\* C23: no product or order operation executes against storage before
\* schema-ensure has completed successfully: every request that reaches
\* storage finds the three relations ensured by the bootstrap.
C23_SchemaEnsuredFirst ==
    \A r \in Slots :
        AtStorage(r) => server.dbConnected /\ Schema \subseteq server.tables

\* ---------------------------------------------------------------- amounts
\* C24: every order persisted by createOrder satisfies
\* total = subtotal + shipping, the amounts being DECIMAL(10,3) values.
C24_TotalIsSubtotalPlusShipping ==
    \A o \in DOMAIN orders :
        orders[o].total = orders[o].subtotal + orders[o].shipping

RECURSIVE SumOfTotals(_)
\* Sum of the line totals of persisted order items.
SumOfTotals(rows) ==
    IF Len(rows) = 0 THEN 0 ELSE rows[1].total + SumOfTotals(Tail(rows))

\* C25: every order item persisted by createOrder has
\* line total = unit price x quantity of its request line item; when the
\* caller's subtotal is the sum of price x quantity over the request's line
\* items, the persisted line totals of the created order sum to its subtotal.
C25_LineTotals ==
    \A r \in Slots :
        (Served(r, "createOrder") /\ h[r].orderId # 0)
        => LET rows == ItemsOf(h[r].orderId)
               items == h[r].body.items.a
           IN  /\ Len(rows) <= Len(items)
               /\ \A k \in 1..Len(rows) :
                     /\ rows[k].product_price = items[k].price.n
                     /\ rows[k].quantity = items[k].quantity.n
                     /\ rows[k].total = items[k].price.n * items[k].quantity.n
               /\ (h[r].pc = "done" /\ h[r].code = 201
                   /\ h[r].body.subtotal = N(SumOfLines(items)))
                  => SumOfTotals(rows) = orders[h[r].orderId].subtotal

\* An order of two lines, one of them of several units, created with the
\* subtotal the lines add up to.
C25_Witness ==
    \E r \in Slots :
        /\ Answered(r, "createOrder") /\ h[r].code = 201
        /\ Len(h[r].body.items.a) = 2
        /\ \E k \in 1..2 : h[r].body.items.a[k].quantity.n > 1
        /\ h[r].body.subtotal = N(SumOfLines(h[r].body.items.a))
        /\ Len(ItemsOf(h[r].orderId)) = 2
        /\ SumOfTotals(ItemsOf(h[r].orderId)) = orders[h[r].orderId].subtotal

\* A request amount that is absent or negative.
BadAmount(v) == v = Undef \/ (v.t = "number" /\ v.n < 0)

\* C26: createOrder answers 400 to, and persists nothing for, every request
\* whose subtotal, shipping or total is missing or negative.
C26_RejectsBadAmounts ==
    \A r \in Slots :
        (Served(r, "createOrder")
         /\ \/ BadAmount(h[r].body.subtotal)
            \/ BadAmount(h[r].body.shipping)
            \/ BadAmount(h[r].body.total))
        => /\ TablesUnchanged(r)
           /\ h[r].pc = "done" => h[r].code = 400

\* ------------------------------------------------------- update and order
\* C27: a product update that omits the stock field never changes the stock,
\* also when it runs concurrently with createOrder on the same product: once
\* both have completed, the stock is max(0, stock before - ordered quantity).
C27_UpdateKeepsDecrement ==
    \A u \in Slots, o \in Slots :
        (/\ Answered(u, "updateProduct") /\ h[u].code = 200
         /\ h[u].body.stock = Undef
         /\ Answered(o, "createOrder") /\ h[o].code = 201
         /\ Referenced(h[o].body.items.a, h[u].id)
         /\ calls = 2)
        => LET first == IF before[u].call = 1 THEN u ELSE o
               p == h[u].id
           IN  products[p].stock
                 = Max0(before[first].products[p].stock
                        - OrderedQty(h[o].body.items.a, p))

\* ------------------------------------------------------- update and image
\* The image reference product id had when the request of slot r arrived.
PreviousImage(r) ==
    IF h[r].id \in DOMAIN before[r].products
    THEN before[r].products[h[r].id].image_url
    ELSE Null

\* C28: product update deletes an asset file only when a new binary image is
\* supplied and the previous image reference is locally-owned; it deletes
\* nothing when the previous reference is an external URL; an update that
\* supplies only a new external URL string replaces the reference and leaves
\* the asset store unchanged.
C28_UpdateDeletesOnlyReplacedImage ==
    \A r \in Slots :
        Served(r, "updateProduct")
        => LET prev == PreviousImage(r)
               deleted == before[r].uploads \ uploads
           IN  /\ deleted # {} => ~Falsy(h[r].body.file) /\ IsLocalImage(prev)
               /\ deleted \subseteq FileOf(prev)
               /\ StartsWithHttp(prev) => deleted = {}
               /\ (Falsy(h[r].body.file) /\ StartsWithHttp(h[r].body.image_url))
                  => /\ uploads = before[r].uploads
                     /\ (h[r].pc = "done" /\ h[r].code = 200)
                        => products[h[r].id].image_url = h[r].body.image_url

\* A product whose image is an external URL got a binary image while the file
\* of another product was in the asset store: that file is still there.
C28_Witness ==
    \E r \in Slots :
        /\ Answered(r, "updateProduct") /\ h[r].code = 200
        /\ ~Falsy(h[r].body.file)
        /\ StartsWithHttp(PreviousImage(r))
        /\ before[r].uploads # {}
        /\ before[r].uploads \subseteq uploads
        /\ products[h[r].id].image_url = h[r].body.file

\* ---------------------------------------------------------------- not found
\* The operations addressed to a product id, and those addressed to an order id.
ProductOps == {"getProduct", "updateProduct", "deleteProduct"}
OrderOps == {"getOrder", "setStatus", "deleteOrder"}

\* The request of slot r is addressed to an id that matched no record when it
\* arrived (for setStatus: with one of the six statuses).
AddressedToNoRecord(r) ==
    \/ h[r].op \in ProductOps /\ h[r].id \notin DOMAIN before[r].products
    \/ /\ h[r].op \in OrderOps /\ h[r].id \notin DOMAIN before[r].orders
       /\ h[r].op = "setStatus" => ~NotAStatus(h[r].body)

\* C29: every operation addressed to an id that matches no record (product
\* get, update and delete; getOrder, setStatus with a valid status,
\* deleteOrder) is answered 404, or 500 when the store fails under it, and
\* leaves products, orders, order items and the asset store as they were, also
\* when the product update carries a binary image.
C29_NotFoundChangesNothing ==
    \A r \in Slots :
        (h[r].pc # "idle" /\ AddressedToNoRecord(r))
        => /\ TablesUnchanged(r)
           /\ uploads = before[r].uploads
           /\ h[r].pc = "done" => h[r].code \in {404, 500}

\* ------------------------------------------------------------ order number
\* The order number of the request of slot r is the number of a persisted order.
NumberInUse(r) ==
    \E o \in DOMAIN orders : orders[o].order_number = h[r].body.orderNumber.s

\* The INSERT INTO orders of slot r is executed in this step.
InsertsOrder(r) ==
    /\ h[r].op = "createOrder" /\ h[r].pc = "insert_order"
    /\ h'[r].pc # "insert_order"

\* C30: in every reachable state no two persisted orders share an order
\* number; a createOrder whose order number is already used by an existing
\* order fails and leaves orders, order items and product stock unchanged,
\* also when two createOrder calls with the same number run concurrently.
C30_UniqueOrderNumbers ==
    /\ [](\A a \in DOMAIN orders, b \in DOMAIN orders :
             a # b => orders[a].order_number # orders[b].order_number)
    /\ [][\A r \in Slots :
             (InsertsOrder(r) /\ NumberInUse(r))
             => /\ h'[r].pc = "done" /\ h'[r].code = 500
                /\ UNCHANGED <<products, orders, order_items>>]_vars

\* Two requests with the same order number arrived before either had inserted
\* its order: one was answered 201, the other 500, and one order is persisted.
C30_Witness ==
    \E r \in Slots, q \in Slots :
        /\ Answered(r, "createOrder") /\ h[r].code = 201
        /\ Answered(q, "createOrder") /\ h[q].code = 500 /\ h[q].orderId = 0
        /\ h[r].body.orderNumber = h[q].body.orderNumber
        /\ before[r].orders = EmptyTable /\ before[q].orders = EmptyTable
        /\ Cardinality(DOMAIN orders) = 1

\* ---------------------------------------------------------------- ownership
\* C31: in every reachable state every persisted order item belongs to an
\* order that exists, under every interleaving of createOrder and deleteOrder,
\* also when a deleteOrder runs between the order-row insert and the line-item
\* inserts of a createOrder.
C31_ItemsBelongToOrders ==
    \A k \in 1..Len(order_items) : order_items[k].order_id \in DOMAIN orders

\* A createOrder failed at a line-item insert because a deleteOrder, answered
\* 200, had removed its order row in between; no line item is left.
C31_Witness ==
    \E c \in Slots, d \in Slots :
        /\ Answered(c, "createOrder") /\ h[c].code = 500 /\ h[c].orderId # 0
        /\ h[c].out = [t |-> "error", details |-> "foreign key"]
        /\ Answered(d, "deleteOrder") /\ h[d].code = 200
        /\ h[d].id = h[c].orderId
        /\ h[d].rows[1].order_number = h[c].body.orderNumber.s
        /\ h[c].orderId \notin DOMAIN orders
        /\ Len(ItemsOf(h[c].orderId)) = 0

\* ------------------------------------------------------------------- health
\* C32: the health check always answers with status ok, also after a failed
\* bootstrap or while storage is unreachable, and reports storage as connected
\* exactly when obtaining a pooled connection and pinging it both succeeded
\* during that call.
C32_HealthAlwaysOk ==
    \A r \in Slots :
        Answered(r, "health")
        => /\ h[r].code = 200
           /\ h[r].out.status = "ok"
           /\ h[r].out.database \in {"connected", "disconnected"}
           /\ h[r].out.database = "connected" <=> h[r].rows = <<TRUE, TRUE>>

\* After a bootstrap that failed 10 times, a health check whose ping failed
\* answered ok and disconnected.
C32_Witness ==
    \E r \in Slots :
        /\ Answered(r, "health")
        /\ ~server.dbConnected /\ server.failed = Retries
        /\ h[r].rows = <<TRUE, FALSE>>
        /\ h[r].out = HealthAnswer("disconnected")

\* ------------------------------------------------------------ price zero
\* A price that is a number, or a string that reads as one, and is not negative.
NumericPriceFromZero(v) == v.t \in {"number", "numstr"} /\ v.n >= 0

\* C33: product create succeeds for every request with a non-empty name and a
\* numeric price >= 0, price exactly 0 included, and stores that price (unless
\* the store fails under it, which is answered 500).
C33_CreateAcceptsPriceZero ==
    \A r \in Slots :
        (/\ Answered(r, "createProduct")
         /\ h[r].body.name.t = "string" /\ h[r].body.name.s # ""
         /\ NumericPriceFromZero(h[r].body.price))
        => \/ h[r].code = 500
           \/ /\ h[r].code = 201
              /\ h[r].id \in DOMAIN products
              /\ products[h[r].id].price = h[r].body.price.n

\* --------------------------------------------------------------------- cart
\* C34: after any sequence of addItem, removeItem, updateQuantity (with any
\* integer quantity) and clear, the stored cart holds at most one entry per
\* product id and every entry has quantity >= 1; addItem of a product already
\* in the cart increases that entry's quantity by exactly 1 and adds no entry.
C34_CartWellFormed ==
    LET items == getItems(browser.storage)
        was == getItems(browser.before)
    IN  /\ \A j \in 1..Len(items), k \in 1..Len(items) :
              j # k => items[j].id # items[k].id
        /\ \A k \in 1..Len(items) : items[k].quantity >= 1
        /\ (browser.call.op = "addItem"
            /\ \E k \in 1..Len(was) : was[k].id = browser.call.id)
           => /\ Len(items) = Len(was)
              /\ \A k \in 1..Len(was) :
                    items[k] = IF was[k].id = browser.call.id
                               THEN [was[k] EXCEPT !.quantity = @ + 1]
                               ELSE was[k]

\* addItem of the second of two products in the cart, whose quantity had been
\* set above 1: the cart still has two entries and that quantity is one more.
C34_Witness ==
    LET items == getItems(browser.storage)
        was == getItems(browser.before)
    IN  /\ browser.call.op = "addItem"
        /\ Len(was) = 2 /\ Len(items) = 2
        /\ was[2].id = browser.call.id
        /\ was[2].quantity > 1
        /\ items[2].quantity = was[2].quantity + 1
====
